---------------------------- MODULE Spec2Model ----------------------------
(***************************************************************************)
(* Mercurial signatures (base scheme and variable-length extension).       *)
(*                                                                         *)
(* The pairing groups G1, G2, Gt and the scalar field Fr all have the same *)
(* prime order.  An element of a group is represented by its discrete      *)
(* logarithm with respect to the group's canonical generator, so that      *)
(*   - group addition is addition modulo R,                                *)
(*   - scalar multiplication is multiplication modulo R,                   *)
(*   - the pairing e(a, b) is the product a * b modulo R (bilinear and     *)
(*     non-degenerate), and Gt is written additively as the code does.     *)
(* The field order of BLS12-381 is scaled down to the small prime R.       *)
(***************************************************************************)
EXTENDS Integers, Sequences, FiniteSets, TLC

\* Order of Fr, G1, G2 and Gt (a small prime standing for the BLS12-381 order).
R == 5

\* Longest key produced by key_gen in the runs explored.
MaxKeyLen == 2

\* Number of operations (key conversion, sign, convert, change of
\* representation) applied to one key pair.
MaxOps == 3

\* Longest variable-length message.
MaxVarLen == 2

\* Number of operations applied to one key pair in the runs that chain
\* conversions and changes of representation after one sign.
MaxChain == 4

\* Longest variable-length message of the runs that only build tuples, sign
\* and convert keys.
MaxTupleLen == 4

Fr == 0..(R - 1)
G1 == 0..(R - 1)
G2 == 0..(R - 1)

\* Values the explored runs draw for the generators, the key scalars and the
\* message elements; every other scalar (y, f, p, u) ranges over all of Fr.
\* ParamSamples holds the canonical generators, a random pair, and the two
\* degenerate pairs with an identity generator.
ParamSamples ==
    {[p1 |-> 1, p2 |-> 1], [p1 |-> 2, p2 |-> 3],
     [p1 |-> 0, p2 |-> 2], [p1 |-> 3, p2 |-> 0]}
KeySamples == {0, 1, 3}
MsgSamples == {0, 1, 2}
ForgeSamples == {0, 1, 3}

\* Narrower draws for the runs that go on to apply equivalence-class
\* operations to the signed triple.
OpsParamSamples == {[p1 |-> 1, p2 |-> 1], [p1 |-> 2, p2 |-> 3], [p1 |-> 3, p2 |-> 0]}
OpsKeySamples == {1, 3}
OpsMsgSamples == {0, 1, 2}

\* Draws of the runs of the variable-length extension: generators, base
\* secret keys (x1..x5), the scalars behind x6..x10, the message base g and
\* message scalars, and the per-coordinate randomness of sign and of
\* change_representation.
ExtParamSamples == {[p1 |-> 2, p2 |-> 3], [p1 |-> 3, p2 |-> 0]}
ExtKeySamples == {<<1, 2, 3, 4, 1>>, <<2, 0, 1, 3, 3>>}
ExtX6Samples == {0, 2}
ExtXSamples == {3}
ExtX8Samples == {0, 3}
ExtY1Samples == {2}
ExtY2Samples == {1, 4}
ExtGSamples == {0, 2}
ExtMsgSamples == {0, 1, 2}
ExtYSamples == {0, 1, 2}
ExtFSamples == {0, 2, 3}

\* Draws of the extension's VarSignature::convert (p, u, and the randomness
\* of its second pass, one f per coordinate), and the VarSignatures that
\* do not come from sign (decoded from bytes: any glue element, any vector
\* of base signatures).
ExtConvPSamples == {0, 1, 3}
ExtConvUSamples == {0, 1, 2}
ExtConvFSamples == {0, 3}
ExtForgeHSamples == {0, 1}
ExtForgeSigSamples ==
    {[z |-> 0, y1 |-> 2, y2 |-> 3, valid |-> TRUE],
     [z |-> 1, y1 |-> 1, y2 |-> 0, valid |-> TRUE]}

\* Draws of the message scalars for the longer variable-length messages.
LongMsgSamples == {1, 2}

Min(a, b) == IF a < b THEN a ELSE b

\* ---------------------------------------------------------------------
\* Provider: field and group arithmetic, pairing
\* ---------------------------------------------------------------------

\* Fr multiplication.
FrMul(a, b) == (a * b) % R

\* Group addition (G1, G2 or Gt).
GAdd(a, b) == (a + b) % R

\* Scalar multiplication of a group element.
GMul(a, s) == (a * s) % R

\* The pairing e : G1 x G2 -> Gt.
pairing(a, b) == (a * b) % R

\* Multiplicative inverse in Fr; only defined for f # 0 (the provider's
\* inverse() yields None for zero).
inverse(f) == CHOOSE x \in 1..(R - 1) : (x * f) % R = 1

\* Fr::one() / f.  The provider's division unwraps inverse(), so it faults
\* for f = 0; callers test Faults(f) before using OneOver(f).
Faults(f) == f = 0
OneOver(f) == FrMul(1, inverse(f))

\* ---------------------------------------------------------------------
\* Base scheme: pure parts
\* ---------------------------------------------------------------------

NoSig == [z |-> 0, y1 |-> 0, y2 |-> 0, valid |-> FALSE]

\* message.iter().zip(x.iter()).fold(zero, |acc, (m, xi)| acc + m * (y * xi))
RECURSIVE sign_fold(_, _, _, _)
sign_fold(x, message, y, n) ==
    IF n = 0 THEN 0
    ELSE GAdd(sign_fold(x, message, y, n - 1), GMul(message[n], FrMul(y, x[n])))

\* The body of sign after the length guard, for y # 0.
sign_body(x, params, message, y) ==
    [z |-> sign_fold(x, message, y, Min(Len(message), Len(x))),
     y1 |-> GMul(params.p1, OneOver(y)),
     y2 |-> GMul(params.p2, OneOver(y)),
     valid |-> TRUE]

\* message.iter().zip(bx.iter()).fold(e(0, 0), |acc, (m, bxi)| acc + e(m, bxi))
RECURSIVE verify_fold(_, _, _)
verify_fold(bx, message, n) ==
    IF n = 0 THEN pairing(0, 0)
    ELSE GAdd(verify_fold(bx, message, n - 1), pairing(message[n], bx[n]))

\* Mutant of verify_equations: the second equation is never checked.
verify_equations_first_only(bx, params, message, s) ==
    pairing(s.y1, params.p2) = pairing(params.p1, s.y2)

\* The two pairing equations shared by both copies of verify.
verify_equations(bx, params, message, s) ==
    IF pairing(s.y1, params.p2) # pairing(params.p1, s.y2) THEN FALSE
    ELSE pairing(s.z, s.y2) = verify_fold(bx, message, Min(Len(message), Len(bx)))

\* Mutant of verify: the length guard is missing.
verify_without_length_guard(bx, params, message, s) ==
    verify_equations(bx, params, message, s)

\* PublicKey::verify of the generic copy: rejects only an over-long message.
verify(bx, params, message, s) ==
    IF Len(bx) < Len(message) THEN FALSE
    ELSE verify_equations(bx, params, message, s)

\* PublicKey::verify of the concrete copy in lib.rs: rejects any length mismatch.
lib_verify(bx, params, message, s) ==
    IF Len(message) # Len(bx) THEN FALSE
    ELSE verify_equations(bx, params, message, s)

\* Mutant of pk_convert: the loop runs over a copy, the key stays as it was.
pk_convert_noop(bx, p) == bx

\* PublicKey::convert: bx_i *= p for every coordinate.
pk_convert(bx, p) == [i \in 1..Len(bx) |-> GMul(bx[i], p)]

\* Mutant of sk_convert: the loop runs over a copy, the key stays as it was.
sk_convert_noop(x, p) == x

\* SecretKey::convert: x_i *= p for every coordinate.
sk_convert(x, p) == [i \in 1..Len(x) |-> FrMul(x[i], p)]

\* Mutant of convert_with_f: y1 and y2 are multiplied by f, not by 1/f.
convert_with_f_not_inverted(s, p, f) ==
    [z |-> GMul(s.z, FrMul(p, f)),
     y1 |-> GMul(s.y1, f),
     y2 |-> GMul(s.y2, f),
     valid |-> s.valid]

\* Mutant of convert_with_f: z is multiplied by f only, p is dropped.
convert_with_f_drops_p(s, p, f) ==
    [z |-> GMul(s.z, f),
     y1 |-> GMul(s.y1, OneOver(f)),
     y2 |-> GMul(s.y2, OneOver(f)),
     valid |-> s.valid]

\* Mutant of convert_with_f: y2 is left as it was.
convert_with_f_keeps_y2(s, p, f) ==
    [z |-> GMul(s.z, FrMul(p, f)),
     y1 |-> GMul(s.y1, OneOver(f)),
     y2 |-> s.y2,
     valid |-> s.valid]

\* Mutant of convert_with_f: z is multiplied by p only, f is dropped.
convert_with_f_drops_f(s, p, f) ==
    [z |-> GMul(s.z, p),
     y1 |-> GMul(s.y1, OneOver(f)),
     y2 |-> GMul(s.y2, OneOver(f)),
     valid |-> s.valid]

\* Signature::convert_with_f, for f # 0.
convert_with_f(s, p, f) ==
    [z |-> GMul(s.z, FrMul(p, f)),
     y1 |-> GMul(s.y1, OneOver(f)),
     y2 |-> GMul(s.y2, OneOver(f)),
     valid |-> s.valid]

\* Mutant of scale_message: the last element is left unscaled.
scale_message_skips_last(message, u) ==
    [i \in 1..Len(message) |-> IF i < Len(message) THEN GMul(message[i], u) ELSE message[i]]

\* message.iter_mut().for_each(|mi| *mi *= u)
scale_message(message, u) == [i \in 1..Len(message) |-> GMul(message[i], u)]

\* key_gen: bx_i = x_i * p2
key_gen_bx(params, x) == [i \in 1..Len(x) |-> GMul(params.p2, x[i])]

\* ---------------------------------------------------------------------
\* Variable-length extension: pure parts
\* ---------------------------------------------------------------------

\* Length of the base key of the extension: key_gen(rng, 5).
ExtKeyLen == 5

NoVarSig == [h |-> 0, sigs |-> << >>]

\* VarMessage::new(g, u): u_i = m_i * g
VarMessage_new(g, m) == [g |-> g, u |-> [i \in 1..Len(m) |-> GMul(g, m[i])]]

\* Mutant of to_tuples_gs: the running element is doubled (gi = gi + gi).
RECURSIVE to_tuples_gs_doubling(_, _)
to_tuples_gs_doubling(g, n) ==
    IF n = 0 THEN << >>
    ELSE IF n = 1 THEN <<g>>
    ELSE LET gs == to_tuples_gs_doubling(g, n - 1)
         IN  Append(gs, GAdd(gs[n - 1], gs[n - 1]))

\* The loop of to_tuples: gs = (g, g + g, ...), one element per coordinate.
RECURSIVE to_tuples_gs(_, _)
to_tuples_gs(g, n) ==
    IF n = 0 THEN << >>
    ELSE IF n = 1 THEN <<g>>
    ELSE LET gs == to_tuples_gs(g, n - 1)
         IN  Append(gs, GAdd(gs[n - 1], g))

\* to_tuples indexes gs[gs.len() - 1]: it faults on a message of length 0.
to_tuples_faults(vm) == Len(vm.u) = 0

\* to_tuples(h) for a message of length >= 1: Mi = (g, g^i, g^n, h, ui).
to_tuples(vm, h) ==
    LET gs == to_tuples_gs(vm.g, Len(vm.u))
        gn == gs[Len(gs)]
    IN  [i \in 1..Min(Len(gs), Len(vm.u)) |-> <<vm.g, gs[i], gn, h, vm.u[i]>>]

\* The trapdoor recovery of extension sign divides by x6 and by x8.
ext_sign_faults(esk) == Faults(esk.x6) \/ Faults(esk.x8)

ext_sign_x(esk) == FrMul(esk.x7, OneOver(esk.x6))
ext_sign_y(esk) ==
    FrMul(FrMul(esk.x9, OneOver(esk.x8)), FrMul(esk.x10, OneOver(esk.x8)))

\* Mutant of ext_sign_h: xi is multiplied by x in every iteration, the first
\* included.
RECURSIVE ext_sign_h_weights_first(_, _, _, _)
ext_sign_h_weights_first(u, x, y, n) ==
    IF n = 0 THEN <<0, 1>>
    ELSE LET prev == ext_sign_h_weights_first(u, x, y, n - 1)
             xi == FrMul(prev[2], x)
         IN  <<GAdd(prev[1], GMul(u[n], FrMul(xi, y))), xi>>

\* The loop computing h: for i in 0..n { if i > 0 { xi *= x }; h += u[i] * (xi * y) }
\* ext_sign_h(u, x, y, n) is <<h, xi>> after n iterations.
RECURSIVE ext_sign_h(_, _, _, _)
ext_sign_h(u, x, y, n) ==
    IF n = 0 THEN <<0, 1>>
    ELSE LET prev == ext_sign_h(u, x, y, n - 1)
             xi == IF n - 1 > 0 THEN FrMul(prev[2], x) ELSE prev[2]
         IN  <<GAdd(prev[1], GMul(u[n], FrMul(xi, y))), xi>>

\* The glue element sign puts into the signature.
ext_glue(esk, vm) ==
    ext_sign_h(vm.u, ext_sign_x(esk), ext_sign_y(esk), Len(vm.u))[1]

\* Extension sign for a key with x6, x8 # 0, a message of length >= 1 and
\* per-coordinate randomness ys without a zero.
ext_sign(x, esk, params, vm, ys) ==
    LET h == ext_glue(esk, vm)
        ms == to_tuples(vm, h)
    IN  [h |-> h, sigs |-> [i \in 1..Len(ms) |-> sign_body(x, params, ms[i], ys[i])]]

\* Extension verify for a message of length >= 1:
\* signature.sigs.iter().zip(ms).all(|(sig, m)| self.pk.verify(pp, &m, sig))
ext_verify(bx, params, vm, vs) ==
    LET ms == to_tuples(vm, vs.h)
    IN  \A i \in 1..Min(Len(vs.sigs), Len(ms)) : verify(bx, params, ms[i], vs.sigs[i])

\* Mutant of ext_change_rep_sig: the glue element h is not scaled by u.
ext_change_rep_sig_keeps_h(vs, u, fs) ==
    [h |-> vs.h,
     sigs |-> [i \in 1..Len(vs.sigs) |->
                 IF i <= Len(fs) THEN convert_with_f(vs.sigs[i], u, fs[i])
                 ELSE vs.sigs[i]]]

\* Extension change_representation for a message of length >= 1 and
\* per-coordinate randomness fs without a zero: the new signature ...
ext_change_rep_sig(vs, u, fs) ==
    [h |-> GMul(vs.h, u),
     sigs |-> [i \in 1..Len(vs.sigs) |->
                 IF i <= Len(fs) THEN convert_with_f(vs.sigs[i], u, fs[i])
                 ELSE vs.sigs[i]]]

\* Mutant of ext_change_rep_msg: the first coordinate is left unscaled.
ext_change_rep_msg_keeps_first(vm, u) ==
    [g |-> GMul(vm.g, u),
     u |-> [i \in 1..Len(vm.u) |-> IF i = 1 THEN vm.u[i] ELSE GMul(vm.u[i], u)]]

\* ... and the new message.
ext_change_rep_msg(vm, u) ==
    [g |-> GMul(vm.g, u), u |-> [i \in 1..Len(vm.u) |-> GMul(vm.u[i], u)]]

\* Mutant of ext_convert_sig: only the first per-coordinate signature is
\* converted.
ext_convert_sig_first_only(vs, p, fs) ==
    [h |-> vs.h,
     sigs |-> [i \in 1..Len(vs.sigs) |->
                 IF i = 1 THEN convert_with_f(vs.sigs[i], p, fs[i]) ELSE vs.sigs[i]]]

\* The second pass of VarSignature::convert, for per-coordinate randomness
\* fs without a zero: self.sigs.iter_mut().for_each(|sig| sig.convert(rng, p))
ext_convert_sig(vs, p, fs) ==
    [h |-> vs.h,
     sigs |-> [i \in 1..Len(vs.sigs) |-> convert_with_f(vs.sigs[i], p, fs[i])]]

\* The extension's verify starts with to_tuples, which faults on a message
\* of length 0 whatever the signature is.
ext_verify_faults(vm, vs) == to_tuples_faults(vm)

\* Mutant of ext_convert_sk: x7 is left as it was.
ext_convert_sk_skips_x7(esk, p) ==
    [x6 |-> FrMul(esk.x6, p), x7 |-> esk.x7, x8 |-> FrMul(esk.x8, p),
     x9 |-> FrMul(esk.x9, p), x10 |-> FrMul(esk.x10, p)]

\* extension SecretKey::convert on x6..x10 (the base part uses sk_convert).
ext_convert_sk(esk, p) ==
    [x6 |-> FrMul(esk.x6, p), x7 |-> FrMul(esk.x7, p), x8 |-> FrMul(esk.x8, p),
     x9 |-> FrMul(esk.x9, p), x10 |-> FrMul(esk.x10, p)]

\* Mutant of ext_convert_pk: bx10 is left as it was.
ext_convert_pk_skips_bx10(epk, p) ==
    [bx6 |-> GMul(epk.bx6, p), bx7 |-> GMul(epk.bx7, p), bx8 |-> GMul(epk.bx8, p),
     bx9 |-> GMul(epk.bx9, p), bx10 |-> epk.bx10]

\* extension PublicKey::convert on bx6..bx10.
ext_convert_pk(epk, p) ==
    [bx6 |-> GMul(epk.bx6, p), bx7 |-> GMul(epk.bx7, p), bx8 |-> GMul(epk.bx8, p),
     bx9 |-> GMul(epk.bx9, p), bx10 |-> GMul(epk.bx10, p)]

\* key_gen_ex: the secret scalars x6..x10 ...
key_gen_ex_sk(x6, x, x8, y1, y2) ==
    [x6 |-> x6, x7 |-> FrMul(x6, x), x8 |-> x8,
     x9 |-> FrMul(x8, y1), x10 |-> FrMul(x8, y2)]

\* ... and the public elements bx6..bx10.
key_gen_ex_pk(params, esk) ==
    [bx6 |-> GMul(params.p2, esk.x6), bx7 |-> GMul(params.p2, esk.x7),
     bx8 |-> GMul(params.p2, esk.x8), bx9 |-> GMul(params.p2, esk.x9),
     bx10 |-> GMul(params.p2, esk.x10)]

NoExtSk == [x6 |-> 0, x7 |-> 0, x8 |-> 0, x9 |-> 0, x10 |-> 0]
NoExtPk == [bx6 |-> 0, bx7 |-> 0, bx8 |-> 0, bx9 |-> 0, bx10 |-> 0]

\* ---------------------------------------------------------------------
\* State
\* ---------------------------------------------------------------------

VARIABLES
    pp,        \* PublicParams {p1, p2}
    pk,        \* PublicKey.bx (the base part of an extension key), as converted so far
    sk,        \* SecretKey.x (the base part of an extension key), as converted so far
    message,   \* the message, as re-represented so far
    sig,       \* the signature, as converted so far
    pk0,       \* the public key as key_gen returned it (the tests' clone)
    message0,  \* the message as first chosen
    sig0,      \* the signature as sign returned it
    epk,       \* extension PublicKey: bx6..bx10
    esk,       \* extension SecretKey: x6..x10
    vmsg,      \* VarMessage {g, u}, as re-represented so far
    vsig,      \* VarSignature {h, sigs}, as converted so far
    vmsg0,     \* the VarMessage as first built
    vsig0,     \* the VarSignature as sign returned it
    hist,      \* operations applied to the key pair since key_gen
    status     \* base scheme: "setup", "keyed", "ready", "signed", "forged";
               \* extension: "ext_setup", "ext_keyed", "ext_ready", "ext_signed",
               \* "ext_forged";
               \* faults: "panic_length" (explicit panic!), "panic_div" (unwrap
               \* of None), "panic_index" (index out of range)

vars == <<pp, pk, sk, message, sig, pk0, message0, sig0,
          epk, esk, vmsg, vsig, vmsg0, vsig0, hist, status>>

baseVars == <<message, sig, message0, sig0>>
extVars == <<epk, esk, vmsg, vsig, vmsg0, vsig0>>

SeqsUpTo(S, lo, hi) == UNION {[1..n -> S] : n \in lo..hi}

\* PublicParams::new / default
InitWith(params, first) ==
    /\ pp \in params
    /\ pk = << >> /\ sk = << >> /\ pk0 = << >>
    /\ message = << >> /\ message0 = << >>
    /\ sig = NoSig /\ sig0 = NoSig
    /\ epk = NoExtPk /\ esk = NoExtSk
    /\ vmsg = [g |-> 0, u |-> << >>] /\ vmsg0 = [g |-> 0, u |-> << >>]
    /\ vsig = NoVarSig /\ vsig0 = NoVarSig
    /\ hist = << >>
    /\ status = first

Init == InitWith(ParamSamples, "setup")

\* pp.key_gen(rng, size)
KeyGenWith(keys) ==
    /\ status = "setup"
    /\ \E x \in keys :
        /\ sk' = x
        /\ pk' = key_gen_bx(pp, x)
        /\ pk0' = key_gen_bx(pp, x)
    /\ status' = "keyed"
    /\ UNCHANGED <<pp, hist>>
    /\ UNCHANGED baseVars
    /\ UNCHANGED extVars

KeyGen == KeyGenWith(SeqsUpTo(KeySamples, 0, MaxKeyLen))

\* The caller picks the message to sign.
NewMessageWith(msgs) ==
    /\ status = "keyed"
    /\ \E m \in msgs :
        /\ message' = m
        /\ message0' = m
    /\ status' = "ready"
    /\ UNCHANGED <<pp, pk, sk, sig, pk0, sig0, hist>>
    /\ UNCHANGED extVars

NewMessage == NewMessageWith(SeqsUpTo(MsgSamples, 0, MaxKeyLen + 1))

\* What both copies of sign do once past the length guard.
SignWith(y) ==
    /\ IF Faults(y)
       THEN /\ status' = "panic_div"
            /\ UNCHANGED <<sig, sig0>>
       ELSE /\ sig' = sign_body(sk, pp, message, y)
            /\ sig0' = sign_body(sk, pp, message, y)
            /\ status' = "signed"
    /\ hist' = Append(hist, "sign")
    /\ UNCHANGED <<pp, pk, sk, message, pk0, message0>>
    /\ UNCHANGED extVars

\* SecretKey::sign of the generic copy (secret_key.rs).
Sign ==
    /\ status = "ready"
    /\ Len(hist) < MaxOps
    /\ IF Len(sk) < Len(message)
       THEN /\ status' = "panic_length"
            /\ hist' = Append(hist, "sign")
            /\ UNCHANGED <<pp, pk, sk, pk0>>
            /\ UNCHANGED baseVars
            /\ UNCHANGED extVars
       ELSE \E y \in Fr : SignWith(y)

\* SecretKey::sign of the concrete copy (lib.rs): no length guard.
LibSign ==
    /\ status = "ready"
    /\ Len(hist) < MaxOps
    /\ \E y \in Fr : SignWith(y)

\* A signature that did not come from sign: any three group elements.
Forge ==
    /\ status = "ready"
    /\ \E z \in ForgeSamples, y1 \in ForgeSamples, y2 \in ForgeSamples :
        sig' = [z |-> z, y1 |-> y1, y2 |-> y2, valid |-> TRUE]
    /\ status' = "forged"
    /\ UNCHANGED <<pp, pk, sk, message, pk0, message0, sig0, hist>>
    /\ UNCHANGED extVars

Next == KeyGen \/ NewMessage \/ Sign \/ LibSign \/ Forge

Spec == Init /\ [][Next]_vars

\* ---------------------------------------------------------------------
\* Equivalence-class operations of the base scheme
\* ---------------------------------------------------------------------

\* pk.convert(p); sk.convert(p) -- a signature, if there is one, is left as
\* it is.
ConvertKeys ==
    /\ status \in {"keyed", "signed"}
    /\ Len(hist) < MaxOps
    /\ \E p \in Fr :
        /\ pk' = pk_convert(pk, p)
        /\ sk' = sk_convert(sk, p)
    /\ hist' = Append(hist, "convert_keys")
    /\ UNCHANGED <<pp, pk0, status>>
    /\ UNCHANGED baseVars
    /\ UNCHANGED extVars

\* pk.convert(p); sk.convert(p); sig.convert(rng, p) with one and the same p.
\* Signature::convert samples f and calls convert_with_f(p, f).
ConvertWithin(ops) ==
    /\ status = "signed"
    /\ Len(hist) < ops
    /\ \E p \in Fr, f \in Fr :
        /\ pk' = pk_convert(pk, p)
        /\ sk' = sk_convert(sk, p)
        /\ IF Faults(f)
           THEN /\ status' = "panic_div"
                /\ UNCHANGED sig
           ELSE /\ sig' = convert_with_f(sig, p, f)
                /\ UNCHANGED status
    /\ hist' = Append(hist, "convert")
    /\ UNCHANGED <<pp, message, pk0, message0, sig0>>
    /\ UNCHANGED extVars

Convert == ConvertWithin(MaxOps)

ConvertChain == ConvertWithin(MaxChain)

\* change_representation(rng, message, sig, u): samples f, converts the
\* signature with (u, f), then scales every message element by u.
ChangeRepWithin(ops) ==
    /\ status = "signed"
    /\ Len(hist) < ops
    /\ \E u \in Fr, f \in Fr :
        IF Faults(f)
        THEN /\ status' = "panic_div"
             /\ UNCHANGED <<sig, message>>
        ELSE /\ sig' = convert_with_f(sig, u, f)
             /\ message' = scale_message(message, u)
             /\ UNCHANGED status
    /\ hist' = Append(hist, "change_rep")
    /\ UNCHANGED <<pp, pk, sk, pk0, message0, sig0>>
    /\ UNCHANGED extVars

ChangeRep == ChangeRepWithin(MaxOps)

ChangeRepChain == ChangeRepWithin(MaxChain)

KeyGenOps == KeyGenWith(SeqsUpTo(OpsKeySamples, 1, MaxKeyLen))

NewMessageOps == NewMessageWith(SeqsUpTo(OpsMsgSamples, 1, MaxKeyLen))

\* ---------------------------------------------------------------------
\* Variable-length extension
\* ---------------------------------------------------------------------

\* pp.key_gen_ex(rng)
KeyGenEx ==
    /\ status = "ext_setup"
    /\ \E x \in ExtKeySamples :
        /\ Len(x) = ExtKeyLen
        /\ sk' = x
        /\ pk' = key_gen_bx(pp, x)
        /\ pk0' = key_gen_bx(pp, x)
    /\ \E x6 \in ExtX6Samples, x \in ExtXSamples, x8 \in ExtX8Samples,
          y1 \in ExtY1Samples, y2 \in ExtY2Samples :
        /\ esk' = key_gen_ex_sk(x6, x, x8, y1, y2)
        /\ epk' = key_gen_ex_pk(pp, key_gen_ex_sk(x6, x, x8, y1, y2))
    /\ status' = "ext_keyed"
    /\ UNCHANGED <<pp, hist, vmsg, vsig, vmsg0, vsig0>>
    /\ UNCHANGED baseVars

\* VarMessage::new(g, scalars)
NewVarMessageWith(msgs) ==
    /\ status = "ext_keyed"
    /\ \E g \in ExtGSamples, m \in msgs :
        /\ vmsg' = VarMessage_new(g, m)
        /\ vmsg0' = VarMessage_new(g, m)
    /\ status' = "ext_ready"
    /\ UNCHANGED <<pp, pk, sk, pk0, epk, esk, vsig, vsig0, hist>>
    /\ UNCHANGED baseVars

NewVarMessage == NewVarMessageWith(SeqsUpTo(ExtMsgSamples, 0, MaxVarLen))

NewVarMessageLong == NewVarMessageWith(SeqsUpTo(LongMsgSamples, 1, MaxTupleLen))

\* extension SecretKey::sign
ExtSign ==
    /\ status = "ext_ready"
    /\ Len(hist) < MaxOps
    /\ IF ext_sign_faults(esk)
       THEN /\ status' = "panic_div"
            /\ UNCHANGED <<vsig, vsig0>>
       ELSE IF to_tuples_faults(vmsg)
       THEN /\ status' = "panic_index"
            /\ UNCHANGED <<vsig, vsig0>>
       ELSE \E ys \in [1..Len(vmsg.u) -> ExtYSamples] :
            IF \E i \in 1..Len(ys) : Faults(ys[i])
            THEN /\ status' = "panic_div"
                 /\ UNCHANGED <<vsig, vsig0>>
            ELSE /\ vsig' = ext_sign(sk, esk, pp, vmsg, ys)
                 /\ vsig0' = ext_sign(sk, esk, pp, vmsg, ys)
                 /\ status' = "ext_signed"
    /\ hist' = Append(hist, "sign")
    /\ UNCHANGED <<pp, pk, sk, pk0, epk, esk, vmsg, vmsg0>>
    /\ UNCHANGED baseVars

\* extension pk.convert(p); sk.convert(p) -- a signature, if there is one,
\* is left as it is.
ExtConvertKeys ==
    /\ status \in {"ext_keyed", "ext_signed"}
    /\ Len(hist) < MaxOps
    /\ \E p \in Fr :
        /\ pk' = pk_convert(pk, p)
        /\ sk' = sk_convert(sk, p)
        /\ epk' = ext_convert_pk(epk, p)
        /\ esk' = ext_convert_sk(esk, p)
    /\ hist' = Append(hist, "convert_keys")
    /\ UNCHANGED <<pp, pk0, vmsg, vsig, vmsg0, vsig0, status>>
    /\ UNCHANGED baseVars

\* extension change_representation(rng, message, signature, u)
ExtChangeRepWithin(ops) ==
    /\ status = "ext_signed"
    /\ Len(hist) < ops
    /\ IF to_tuples_faults(vmsg)
       THEN /\ status' = "panic_index"
            /\ UNCHANGED <<vmsg, vsig>>
       ELSE \E u \in Fr, fs \in [1..Min(Len(vmsg.u), Len(vsig.sigs)) -> ExtFSamples] :
            IF \E i \in 1..Len(fs) : Faults(fs[i])
            THEN /\ status' = "panic_div"
                 /\ UNCHANGED <<vmsg, vsig>>
            ELSE /\ vsig' = ext_change_rep_sig(vsig, u, fs)
                 /\ vmsg' = ext_change_rep_msg(vmsg, u)
                 /\ UNCHANGED status
    /\ hist' = Append(hist, "change_rep")
    /\ UNCHANGED <<pp, pk, sk, pk0, epk, esk, vmsg0, vsig0>>
    /\ UNCHANGED baseVars

ExtChangeRep == ExtChangeRepWithin(MaxOps)

ExtChangeRepChain == ExtChangeRepWithin(MaxChain)

\* pk.convert(p); sk.convert(p); sig.convert(rng, &mut message, p, u):
\* VarSignature::convert runs the extension's change_representation with u
\* and then converts every per-coordinate signature with p.
ExtConvert ==
    /\ status = "ext_signed"
    /\ Len(hist) < MaxOps
    /\ \E p \in ExtConvPSamples :
        /\ pk' = pk_convert(pk, p)
        /\ sk' = sk_convert(sk, p)
        /\ epk' = ext_convert_pk(epk, p)
        /\ esk' = ext_convert_sk(esk, p)
        /\ IF to_tuples_faults(vmsg)
           THEN /\ status' = "panic_index"
                /\ UNCHANGED <<vmsg, vsig>>
           ELSE \E u \in ExtConvUSamples,
                   fs \in [1..Min(Len(vmsg.u), Len(vsig.sigs)) -> ExtFSamples],
                   gs \in [1..Len(vsig.sigs) -> ExtConvFSamples] :
                IF (\E i \in 1..Len(fs) : Faults(fs[i])) \/ (\E i \in 1..Len(gs) : Faults(gs[i]))
                THEN /\ status' = "panic_div"
                     /\ UNCHANGED <<vmsg, vsig>>
                ELSE /\ vsig' = ext_convert_sig(ext_change_rep_sig(vsig, u, fs), p, gs)
                     /\ vmsg' = ext_change_rep_msg(vmsg, u)
                     /\ UNCHANGED status
    /\ hist' = Append(hist, "convert")
    /\ UNCHANGED <<pp, pk0, vmsg0, vsig0>>
    /\ UNCHANGED baseVars

\* A VarSignature that did not come from sign (VarSignature is decoded from
\* bytes by CanonicalDeserialize): a prefix of the signatures at hand,
\* possibly followed by another base signature, under any glue element.
ExtForge ==
    /\ status \in {"ext_ready", "ext_signed"}
    /\ \E h \in ExtForgeHSamples \cup {vsig.h}, k \in 0..Len(vsig.sigs),
          extra \in SeqsUpTo(ExtForgeSigSamples, 0, 1) :
        vsig' = [h |-> h, sigs |-> SubSeq(vsig.sigs, 1, k) \o extra]
    /\ status' = "ext_forged"
    /\ UNCHANGED <<pp, pk, sk, pk0, epk, esk, vmsg, vmsg0, vsig0, hist>>
    /\ UNCHANGED baseVars

\* ---------------------------------------------------------------------
\* The runs with equivalence-class operations, of either layer
\* ---------------------------------------------------------------------

InitOps ==
    \/ InitWith(OpsParamSamples, "setup")
    \/ InitWith(ExtParamSamples, "ext_setup")

NextOps ==
    \/ KeyGenOps \/ NewMessageOps \/ Sign \/ LibSign
    \/ ConvertKeys \/ Convert \/ ChangeRep
    \/ KeyGenEx \/ NewVarMessage \/ ExtSign \/ ExtConvertKeys \/ ExtChangeRep

SpecOps == InitOps /\ [][NextOps]_vars

\* The runs of the variable-length extension alone, with the conversion of
\* VarSignatures and with VarSignatures that sign did not make.
InitExt == InitWith(ExtParamSamples, "ext_setup")

NextExt ==
    \/ KeyGenEx \/ NewVarMessage \/ ExtSign
    \/ ExtChangeRep \/ ExtConvert \/ ExtForge

SpecExt == InitExt /\ [][NextExt]_vars

\* The runs that build the tuples of longer variable-length messages and
\* sign them, under keys as generated or converted.
InitLong == InitWith(ExtParamSamples, "ext_setup")

NextLong == KeyGenEx \/ NewVarMessageLong \/ ExtSign \/ ExtConvertKeys

SpecLong == InitLong /\ [][NextLong]_vars

\* The runs that sign once and then chain conversions and changes of
\* representation, of either layer.
InitChain ==
    \/ InitWith(OpsParamSamples, "setup")
    \/ InitWith(ExtParamSamples, "ext_setup")

NextChain ==
    \/ KeyGenOps \/ NewMessageOps \/ Sign \/ ConvertChain \/ ChangeRepChain
    \/ KeyGenEx \/ NewVarMessage \/ ExtSign \/ ExtChangeRepChain

SpecChain == InitChain /\ [][NextChain]_vars

\* ---------------------------------------------------------------------
\* Properties
\* ---------------------------------------------------------------------

Last(h) == h[Len(h)]

\* The operations applied after the signature was made.
RECURSIVE OpsAfterSign(_)
OpsAfterSign(h) ==
    IF h = << >> THEN << >>
    ELSE IF Head(h) = "sign" THEN Tail(h)
    ELSE OpsAfterSign(Tail(h))

\* The right-hand side of the second verification equation, the product of
\* the e(M_i, bx_i), for a key and a message.
PairingProduct(bx, m) == verify_fold(bx, m, Min(Len(m), Len(bx)))

\* C1, as claimed: whatever the generators, the key (of length >= 1), the
\* message (as long as the key) and the randomness y drawn by sign are,
\* sign returns a signature and verify accepts it, in both copies of the
\* code.
C1_SignAlwaysVerifies ==
    (hist # << >> /\ Last(hist) = "sign" /\ Len(sk) >= 1 /\ Len(message) = Len(sk))
        => /\ status = "signed"
           /\ sig.valid
           /\ verify(pk, pp, message, sig)
           /\ lib_verify(pk, pp, message, sig)

\* C2, as claimed: a signature returned by sign on a message strictly
\* shorter than the key is accepted by verify, in both copies of the code.
C2_ShortMessageAccepted ==
    (status = "signed" /\ Len(message) < Len(pk))
        => /\ verify(pk, pp, message, sig)
           /\ lib_verify(pk, pp, message, sig)

\* C9, as claimed: sign called with a message longer than the key returns
\* no signature and ends with a recoverable MessageTooLong error, not with
\* a signature and not with a fatal abort.
C9_TooLongIsRecoverableError ==
    (Len(message) > Len(sk) /\ hist # << >> /\ Last(hist) = "sign")
        => /\ ~sig.valid
           /\ status \notin {"signed", "panic_length", "panic_div"}

\* C10: verify (either copy) yields a boolean for every key, generators,
\* message and signature, signed or forged, and yields false whenever the
\* message is longer than the key.
C10_VerifyTotal ==
    status \in {"ready", "signed", "forged"}
        => /\ verify(pk, pp, message, sig) \in BOOLEAN
           /\ lib_verify(pk, pp, message, sig) \in BOOLEAN
           /\ Len(message) > Len(pk)
                => /\ ~verify(pk, pp, message, sig)
                   /\ ~lib_verify(pk, pp, message, sig)

C10_Witness ==
    /\ status = "forged"
    /\ Len(message) > Len(pk) /\ Len(pk) >= 1
    /\ sig.z # 0 /\ sig.y2 # 0
    /\ verify_equations(pk, pp, message, sig)
    /\ ~verify(pk, pp, message, sig)

\* C3: after pk.convert(p), sk.convert(p) and sig.convert(rng, p) with one
\* and the same p, the converted key accepts the converted signature on
\* the unchanged message.
C3_ConvertedTripleVerifies ==
    (status = "signed" /\ OpsAfterSign(hist) = <<"convert">> /\ Len(message) <= Len(pk))
        => /\ message = message0
           /\ verify(pk, pp, message, sig)
           /\ Len(message) = Len(pk) => lib_verify(pk, pp, message, sig)

C3_Witness ==
    /\ status = "signed" /\ hist = <<"sign", "convert">>
    /\ Len(pk) = MaxKeyLen /\ Len(message) = MaxKeyLen
    /\ pk # pk0 /\ sig.z \notin {0, sig0.z} /\ sig.y2 \notin {0, sig0.y2}
    /\ verify(pk, pp, message, sig)
    /\ ~verify(pk0, pp, message, sig)

\* C4: after change_representation(rng, message, sig, u) the scaled message
\* and the updated signature are accepted under the public key, which the
\* operation leaves unchanged.
C4_ChangeRepVerifies ==
    (status = "signed" /\ OpsAfterSign(hist) = <<"change_rep">> /\ Len(message) <= Len(pk))
        => /\ Len(message) = Len(message0)
           /\ verify(pk, pp, message, sig)
           /\ Len(message) = Len(pk) => lib_verify(pk, pp, message, sig)

C4_Witness ==
    /\ status = "signed" /\ hist = <<"sign", "change_rep">>
    /\ Len(message) = MaxKeyLen
    /\ pk = pk0 /\ message # message0 /\ sig.z \notin {0, sig0.z}
    /\ verify(pk, pp, message, sig)
    /\ ~verify(pk, pp, message0, sig)

\* C5: convert with p and then change_representation with u, or
\* change_representation with u and then convert with p, both end in a key,
\* message and signature that verify accepts.
C5_ConvertAndChangeRepCommute ==
    (/\ status = "signed"
     /\ OpsAfterSign(hist) \in {<<"convert", "change_rep">>, <<"change_rep", "convert">>}
     /\ Len(message) <= Len(pk))
        => verify(pk, pp, message, sig)

C5_Witness ==
    /\ status = "signed" /\ hist = <<"sign", "change_rep", "convert">>
    /\ Len(message) = MaxKeyLen
    /\ pk # pk0 /\ message # message0 /\ sig.z # 0 /\ sig.y2 \notin {0, sig0.y2}
    /\ verify(pk, pp, message, sig)
    /\ ~verify(pk0, pp, message, sig)
    /\ ~verify(pk, pp, message0, sig)

\* C6: a key pair converted with one and the same p signs and verifies: a
\* signature made by the converted secret key is accepted under the
\* converted public key, in the base scheme and in the extension.
C6_ConvertedKeysSignAndVerify ==
    /\ (status = "signed" /\ Len(hist) >= 2 /\ Last(hist) = "sign"
            /\ Len(message) <= Len(pk))
          => verify(pk, pp, message, sig)
    /\ (status = "ext_signed" /\ Len(hist) >= 2 /\ Last(hist) = "sign")
          => /\ Len(vsig.sigs) = Len(vmsg.u)
             /\ ext_verify(pk, pp, vmsg, vsig)

C6_Witness ==
    /\ status = "ext_signed" /\ hist = <<"convert_keys", "sign">>
    /\ pk # pk0 /\ pk[1] # 0 /\ pp.p2 # 0
    /\ Len(vsig.sigs) = MaxVarLen /\ vmsg.u[1] # 0
    /\ \A i \in 1..Len(vsig.sigs) : vsig.sigs[i].z # 0
    /\ ext_verify(pk, pp, vmsg, vsig)
    /\ ~ext_verify(pk0, pp, vmsg, vsig)

\* Some coordinate of the variable-length message has a tuple whose pairing
\* product, with the glue element taken as h, is not the identity.
ExtSomeProduct(bx, vm, h) ==
    /\ ~to_tuples_faults(vm)
    /\ \E i \in 1..Len(vm.u) : PairingProduct(bx, to_tuples(vm, h)[i]) # 0

\* C7, as claimed: a public key converted with p # 1 rejects the signature
\* that was not converted, and the unconverted public key rejects the
\* signature made by the converted secret key; in the base scheme and in
\* the extension.
C7_ConversionMismatchRejected ==
    /\ (status = "signed" /\ hist = <<"sign", "convert_keys">> /\ pk # pk0)
          => ~verify(pk, pp, message, sig)
    /\ (status = "signed" /\ hist = <<"convert_keys", "sign">> /\ pk # pk0)
          => ~verify(pk0, pp, message, sig)
    /\ (status = "ext_signed" /\ hist = <<"sign", "convert_keys">> /\ pk # pk0)
          => ~ext_verify(pk, pp, vmsg, vsig)
    /\ (status = "ext_signed" /\ hist = <<"convert_keys", "sign">> /\ pk # pk0)
          => ~ext_verify(pk0, pp, vmsg, vsig)

\* C7, amended: the mismatch is rejected whenever the pairing product of
\* the message under the unconverted key is not the identity of Gt (for
\* the extension: for the tuple of some coordinate).
C7_MismatchRejectedUnlessDegenerate ==
    /\ (status = "signed" /\ hist = <<"sign", "convert_keys">> /\ pk # pk0
            /\ PairingProduct(pk0, message) # 0)
          => ~verify(pk, pp, message, sig)
    /\ (status = "signed" /\ hist = <<"convert_keys", "sign">> /\ pk # pk0
            /\ PairingProduct(pk0, message) # 0)
          => ~verify(pk0, pp, message, sig)
    /\ (status = "ext_signed" /\ hist = <<"sign", "convert_keys">> /\ pk # pk0
            /\ ExtSomeProduct(pk0, vmsg, vsig.h))
          => ~ext_verify(pk, pp, vmsg, vsig)
    /\ (status = "ext_signed" /\ hist = <<"convert_keys", "sign">> /\ pk # pk0
            /\ ExtSomeProduct(pk0, vmsg, vsig.h))
          => ~ext_verify(pk0, pp, vmsg, vsig)

C7_Witness ==
    /\ status = "signed" /\ hist = <<"sign", "convert_keys">>
    /\ Len(pk) = MaxKeyLen /\ Len(message) = MaxKeyLen
    /\ pk # pk0 /\ pk[1] # 0 /\ PairingProduct(pk0, message) # 0
    /\ verify(pk0, pp, message, sig)
    /\ ~verify(pk, pp, message, sig)

C11_NoInversionFault ==
    status = "panic_div"
        => /\ Len(sk) = ExtKeyLen
           /\ hist # << >> /\ Last(hist) = "sign"
           /\ ext_sign_faults(esk)

\* C12, as claimed: for every key pair of key_gen_ex and every VarMessage
\* of length n >= 1, the extension's sign returns a VarSignature with
\* exactly n base signatures and the extension's verify accepts it.
C12_VarSignThenVarVerify ==
    (Len(sk) = ExtKeyLen /\ hist = <<"sign">> /\ Len(vmsg.u) >= 1)
        => /\ status = "ext_signed"
           /\ Len(vsig.sigs) = Len(vmsg.u)
           /\ ext_verify(pk, pp, vmsg, vsig)

\* C13: after the extension's change_representation with u on a signature
\* that sign returned, g, every u_i and h are scaled by u, there is still
\* one signature per coordinate, the public key is the one it was, and the
\* extension's verify accepts the new message with the new signature.
C13_VarChangeRepVerifies ==
    (status = "ext_signed" /\ OpsAfterSign(hist) = <<"change_rep">>)
        => /\ \E u \in Fr :
                /\ vmsg.g = GMul(vmsg0.g, u)
                /\ vmsg.u = [i \in 1..Len(vmsg0.u) |-> GMul(vmsg0.u[i], u)]
                /\ vsig.h = GMul(vsig0.h, u)
           /\ Len(vsig.sigs) = Len(vmsg.u)
           /\ hist = <<"sign", "change_rep">> => pk = pk0
           /\ ext_verify(pk, pp, vmsg, vsig)

C13_Witness ==
    /\ status = "ext_signed" /\ hist = <<"sign", "change_rep">>
    /\ Len(vmsg.u) = MaxVarLen
    /\ vmsg.g \notin {0, vmsg0.g} /\ vsig.h \notin {0, vsig0.h}
    /\ \A i \in 1..Len(vsig.sigs) : vsig.sigs[i].z \notin {0, vsig0.sigs[i].z}
    /\ ext_verify(pk, pp, vmsg, vsig)
    /\ ~ext_verify(pk, pp, vmsg0, vsig)
    /\ ~ext_verify(pk, pp, vmsg, vsig0)

\* C14: after pk.convert(p), sk.convert(p) and sig.convert(rng, message, p, u)
\* on a VarSignature that sign returned, the converted key accepts the new
\* message with the new signature, which still has one base signature per
\* coordinate; and so it does when the extension's change_representation
\* is applied before or after the conversion.
C14_VarConvertVerifies ==
    (/\ status = "ext_signed"
     /\ OpsAfterSign(hist) \in {<<"convert">>, <<"convert", "change_rep">>,
                                <<"change_rep", "convert">>})
        => /\ Len(vsig.sigs) = Len(vmsg.u)
           /\ ext_verify(pk, pp, vmsg, vsig)

C14_Witness ==
    /\ status = "ext_signed" /\ hist = <<"sign", "change_rep", "convert">>
    /\ Len(vmsg.u) = MaxVarLen
    /\ pk # pk0 /\ pk[5] # 0 /\ vmsg.g \notin {0, vmsg0.g} /\ vmsg.u[MaxVarLen] # 0
    /\ \A i \in 1..Len(vsig.sigs) : vsig.sigs[i].z \notin {0, vsig0.sigs[i].z}
    /\ ext_verify(pk, pp, vmsg, vsig)
    /\ ~ext_verify(pk0, pp, vmsg, vsig)
    /\ ~ext_verify(pk, pp, vmsg0, vsig)

\* C15, as claimed: the extension's verify yields a boolean and never
\* faults, for every key, every VarMessage (one of length 0 included) and
\* every VarSignature, made by sign or not.
C15_VarVerifyTotal ==
    status \in {"ext_ready", "ext_signed", "ext_forged"}
        => ~ext_verify_faults(vmsg, vsig)

\* C16, as claimed: for every extension secret key that key_gen_ex returns,
\* also after convert(p), and every VarMessage of length n >= 1, the
\* extension's sign completes and returns a VarSignature; the trapdoor
\* recovery never divides by zero.
C16_VarSignCompletes ==
    (Len(sk) = ExtKeyLen /\ hist # << >> /\ Last(hist) = "sign" /\ Len(vmsg.u) >= 1)
        => /\ status = "ext_signed"
           /\ ~ext_sign_faults(esk)

\* C17, as claimed: the extension's verify returns false whenever the
\* VarSignature does not carry exactly one base signature per coordinate
\* of the message (of length n >= 1), in particular when it carries fewer.
C17_SignatureCountMismatchRejected ==
    (/\ status \in {"ext_signed", "ext_forged"}
     /\ Len(vmsg.u) >= 1
     /\ Len(vsig.sigs) # Len(vmsg.u))
        => ~ext_verify(pk, pp, vmsg, vsig)

\* C18, as claimed: verify (either copy) returns true exactly when the
\* message is not longer than the key, e(y1, p2) = e(p1, y2), and e(z, y2)
\* is the product of the e(M_i, bx_i) over all i up to the length of the
\* message; in particular a signature that fails the first equation is
\* rejected even when the second holds.
C18_VerifyIffThreeConditions ==
    status \in {"signed", "forged"}
        => LET three ==
                   /\ Len(message) <= Len(pk)
                   /\ pairing(sig.y1, pp.p2) = pairing(pp.p1, sig.y2)
                   /\ pairing(sig.z, sig.y2) = verify_fold(pk, message, Len(message))
           IN  /\ verify(pk, pp, message, sig) = three
               /\ lib_verify(pk, pp, message, sig) = three

\* C19: a signature converted once (Signature::convert with p) is the
\* signed one with z multiplied by p * f and y1, y2 multiplied by 1 / f, for
\* some f # 0; a signature whose representation was changed once
\* (change_representation with u) is updated in the same way with p = u,
\* and the message then has every element multiplied by u and its length
\* unchanged, while convert leaves the message as it was.
C19_ConvertWithFUpdate ==
    /\ (status = "signed" /\ OpsAfterSign(hist) = <<"convert">>)
          => /\ message = message0
             /\ \E p \in Fr, f \in Fr, g \in Fr :
                  /\ (f * g) % R = 1
                  /\ sig.z = (sig0.z * ((p * f) % R)) % R
                  /\ sig.y1 = (sig0.y1 * g) % R
                  /\ sig.y2 = (sig0.y2 * g) % R
                  /\ hist = <<"sign", "convert">>
                        => pk = [i \in 1..Len(pk0) |-> (pk0[i] * p) % R]
    /\ (status = "signed" /\ OpsAfterSign(hist) = <<"change_rep">>)
          => \E u \in Fr, f \in Fr, g \in Fr :
                  /\ (f * g) % R = 1
                  /\ sig.z = (sig0.z * ((u * f) % R)) % R
                  /\ sig.y1 = (sig0.y1 * g) % R
                  /\ sig.y2 = (sig0.y2 * g) % R
                  /\ Len(message) = Len(message0)
                  /\ \A i \in 1..Len(message0) : message[i] = (message0[i] * u) % R

C19_Witness ==
    /\ status = "signed" /\ hist = <<"sign", "change_rep">>
    /\ Len(message) = MaxKeyLen /\ Len(pk) = MaxKeyLen
    /\ sig0.z # 0 /\ pp.p1 # 0 /\ pp.p2 # 0
    /\ sig.z \notin {0, sig0.z} /\ sig.y1 # sig0.y1 /\ sig.y2 # sig0.y2
    /\ \A i \in 1..Len(message) : message[i] \notin {0, message0[i]}

\* C20: once key_gen or key_gen_ex has returned, and after any sequence of
\* conversions that multiply the public and the secret key by the same
\* scalar, the two keys have the same length, the one they were generated
\* with, and bx_i = x_i * p2 for every i; for an extension key pair the
\* length is 5 and also bx6..bx10 = x6..x10 * p2; and as key_gen_ex
\* returns it the secret key has x7 = x6 * x, x9 = x8 * y1, x10 = x8 * y2
\* for some x, y1, y2.
C20_KeyPairInvariant ==
    /\ status \notin {"setup", "ext_setup"}
          => /\ Len(pk) = Len(sk) /\ Len(pk) = Len(pk0)
             /\ \A i \in 1..Len(sk) : pk[i] = (sk[i] * pp.p2) % R
    /\ status \in {"ext_keyed", "ext_ready", "ext_signed", "panic_index"}
          \/ (status = "panic_div" /\ Len(sk) = ExtKeyLen)
          => /\ Len(pk) = ExtKeyLen
             /\ epk.bx6 = (esk.x6 * pp.p2) % R
             /\ epk.bx7 = (esk.x7 * pp.p2) % R
             /\ epk.bx8 = (esk.x8 * pp.p2) % R
             /\ epk.bx9 = (esk.x9 * pp.p2) % R
             /\ epk.bx10 = (esk.x10 * pp.p2) % R
    /\ (status \in {"ext_keyed", "ext_ready"} /\ hist = << >>)
          => \E x \in Fr, y1 \in Fr, y2 \in Fr :
                /\ esk.x7 = (esk.x6 * x) % R
                /\ esk.x9 = (esk.x8 * y1) % R
                /\ esk.x10 = (esk.x8 * y2) % R

C20_Witness ==
    /\ status = "ext_signed"
    /\ hist = <<"convert_keys", "sign", "convert_keys">>
    /\ pp.p2 # 0 /\ pk # pk0 /\ \A i \in 1..Len(pk) : pk[i] # 0 /\ sk[i] # pk[i]
    /\ epk.bx6 # 0 /\ epk.bx8 # 0 /\ epk.bx10 \notin {0, esk.x10}

\* C21: for a VarMessage (g, u_1..u_n) with n >= 1 and any glue element h,
\* to_tuples(h) returns exactly n tuples, the i-th being
\* (g, i*g, n*g, h, u_i), so that all of them share g, n*g and h; and the
\* signature sign returns carries, for every i, a base signature on exactly
\* that tuple with h the glue element of the signature.
C21_TupleConstruction ==
    (status \in {"ext_ready", "ext_signed"} /\ Len(vmsg.u) >= 1)
        => LET n == Len(vmsg.u)
               tuple(i, h) == <<vmsg.g, (i * vmsg.g) % R, (n * vmsg.g) % R, h, vmsg.u[i]>>
           IN  /\ \A h \in G1 :
                    /\ Len(to_tuples(vmsg, h)) = n
                    /\ \A i \in 1..n : to_tuples(vmsg, h)[i] = tuple(i, h)
               /\ (status = "ext_signed" /\ Last(hist) = "sign")
                    => /\ Len(vsig.sigs) = n
                       /\ \A i \in 1..n : verify(pk, pp, tuple(i, vsig.h), vsig.sigs[i])

C21_Witness ==
    /\ status = "ext_signed" /\ Last(hist) = "sign"
    /\ Len(vmsg.u) = MaxTupleLen /\ vmsg.g # 0 /\ vsig.h # 0 /\ pp.p2 # 0
    /\ Len(to_tuples(vmsg, vsig.h)) = MaxTupleLen
    /\ to_tuples(vmsg, vsig.h)[3] = <<vmsg.g, (3 * vmsg.g) % R, (4 * vmsg.g) % R, vsig.h, vmsg.u[3]>>
    /\ to_tuples(vmsg, vsig.h)[3][2] \notin {vmsg.g, to_tuples(vmsg, vsig.h)[3][3]}
    /\ \A i \in 1..MaxTupleLen : vsig.sigs[i].z # 0

\* x to the power k in Fr, and the sum of the x^(i-1) * u_i for i = 1..n.
RECURSIVE FrPow(_, _)
FrPow(x, k) == IF k = 0 THEN 1 ELSE (x * FrPow(x, k - 1)) % R

RECURSIVE GlueSum(_, _, _)
GlueSum(u, x, n) ==
    IF n = 0 THEN 0 ELSE (GlueSum(u, x, n - 1) + FrPow(x, n - 1) * u[n]) % R

\* C22: the glue element sign computes, and puts into the signature it
\* returns, is h = y * sum over i = 1..n of x^(i-1) * u_i, where x = x7/x6,
\* y1 = x9/x8, y2 = x10/x8 and y = y1 * y2 are recovered from the extension
\* secret key; u_1 is weighted by x^0 = 1 and u_n by x^(n-1).
C22_GlueElement ==
    (/\ status \in {"ext_ready", "ext_signed"}
     /\ Len(vmsg.u) >= 1
     /\ ~ext_sign_faults(esk))
        => \E x \in Fr, y1 \in Fr, y2 \in Fr :
              /\ (x * esk.x6) % R = esk.x7
              /\ (y1 * esk.x8) % R = esk.x9
              /\ (y2 * esk.x8) % R = esk.x10
              /\ ext_glue(esk, vmsg) = (y1 * y2 * GlueSum(vmsg.u, x, Len(vmsg.u))) % R
              /\ (status = "ext_signed" /\ Last(hist) = "sign")
                    => vsig.h = (y1 * y2 * GlueSum(vmsg.u, x, Len(vmsg.u))) % R

C22_Witness ==
    /\ status = "ext_signed" /\ Last(hist) = "sign" /\ Len(hist) >= 2
    /\ Len(vmsg.u) = MaxTupleLen
    /\ esk.x7 \notin {0, esk.x6} /\ esk.x10 \notin {0, esk.x8} /\ esk.x9 \notin {0, esk.x8}
    /\ \A i \in 1..MaxTupleLen : vmsg.u[i] # 0
    /\ vsig.h # 0
    /\ vsig.h # GlueSum(vmsg.u, 1, Len(vmsg.u))
    /\ vsig.h = ext_glue(esk, vmsg)

\* C23: after one or more successive calls of the extension's
\* change_representation on a VarSignature that sign returned, the glue
\* element of the signature is the one sign would compute, with the same
\* extension secret key, on the message as it is now; it is u * h for the
\* glue element h that sign returned and the product u of the scalars
\* applied, which also scales g and every u_i.
C23_GlueConsistency ==
    (/\ status = "ext_signed"
     /\ Len(hist) >= 2 /\ Head(hist) = "sign"
     /\ \A i \in 2..Len(hist) : hist[i] = "change_rep")
        => /\ ~ext_sign_faults(esk)
           /\ vsig.h = ext_glue(esk, vmsg)
           /\ \E u \in Fr :
                /\ vsig.h = (u * vsig0.h) % R
                /\ vmsg.g = (u * vmsg0.g) % R
                /\ vmsg.u = [i \in 1..Len(vmsg0.u) |-> (u * vmsg0.u[i]) % R]

C23_Witness ==
    /\ status = "ext_signed"
    /\ hist = <<"sign", "change_rep", "change_rep", "change_rep">>
    /\ Len(vmsg.u) = MaxVarLen /\ pp.p2 # 0
    /\ esk.x7 \notin {0, esk.x6}
    /\ vsig.h \notin {0, vsig0.h}
    /\ \A i \in 1..MaxVarLen : vmsg.u[i] \notin {0, vmsg0.u[i]}
    /\ vsig.h = ext_glue(esk, vmsg)
    /\ vsig.h # ext_glue(esk, vmsg0)

\* C24: every step that converts the extension secret key with a non-zero
\* p leaves the outcome of the trapdoor recovery of sign as it was: the
\* recovery faults after the step exactly if it did before, and otherwise
\* x = x7/x6, y1 = x9/x8 and y2 = x10/x8 are unchanged, so the converted key
\* computes the glue element the original key computes for the message at
\* hand, which is the glue element of a signature made before the step.
C24_ConvertPreservesTrapdoor ==
    [][(/\ hist' = Append(hist, "convert_keys")
        /\ Len(sk) = ExtKeyLen
        /\ \E p \in Fr \ {0} : sk' = [i \in 1..Len(sk) |-> (sk[i] * p) % R])
          => /\ ext_sign_faults(esk') = ext_sign_faults(esk)
             /\ ~ext_sign_faults(esk)
                  => /\ ext_sign_x(esk') = ext_sign_x(esk)
                     /\ FrMul(esk'.x9, OneOver(esk'.x8)) = FrMul(esk.x9, OneOver(esk.x8))
                     /\ FrMul(esk'.x10, OneOver(esk'.x8)) = FrMul(esk.x10, OneOver(esk.x8))
                     /\ ext_sign_y(esk') = ext_sign_y(esk)
                     /\ ext_glue(esk', vmsg') = ext_glue(esk, vmsg)
                     /\ (status = "ext_signed" /\ Last(hist) = "sign")
                          => vsig'.h = ext_glue(esk', vmsg')]_vars

C24_Witness ==
    /\ status = "ext_signed" /\ hist = <<"sign", "convert_keys">>
    /\ Len(vmsg.u) = MaxTupleLen /\ pp.p2 # 0
    /\ pk # pk0 /\ \E i \in 1..Len(pk) : pk[i] # 0
    /\ ~ext_sign_faults(esk)
    /\ esk.x7 \notin {0, esk.x6} /\ esk.x10 \notin {0, esk.x8}
    /\ vsig.h # 0
    /\ vsig.h = ext_glue(esk, vmsg)

\* C25: in every state reached from a fresh key pair, message and
\* signature sigma = sign(sk, pp, M) by any sequence of steps, each either
\* a conversion (one and the same p applied to pk, sk and sigma) or a change
\* of representation (u applied to M and sigma), the signature is
\* well-formed for the current key and message: e(y1, p2) = e(p1, y2), the
\* key pair still has bx_i = x_i * p2, the message has the length it was
\* signed with, and verify accepts.
C25_ReachabilityInvariant ==
    (/\ status = "signed"
     /\ hist # << >> /\ Head(hist) = "sign"
     /\ \A i \in 2..Len(hist) : hist[i] \in {"convert", "change_rep"})
        => /\ sig.valid
           /\ pairing(sig.y1, pp.p2) = pairing(pp.p1, sig.y2)
           /\ Len(message) = Len(message0) /\ Len(message) <= Len(pk)
           /\ pk = [i \in 1..Len(sk) |-> (sk[i] * pp.p2) % R]
           /\ verify(pk, pp, message, sig)

C25_Witness ==
    /\ status = "signed"
    /\ hist = <<"sign", "convert", "change_rep", "convert">>
    /\ Len(pk) = MaxKeyLen /\ Len(message) = MaxKeyLen /\ pp.p2 # 0
    /\ pk # pk0 /\ \A i \in 1..Len(pk) : pk[i] # 0
    /\ \A i \in 1..Len(message) : message[i] \notin {0, message0[i]}
    /\ sig.z \notin {0, sig0.z} /\ sig.y2 \notin {0, sig0.y2}
    /\ verify(pk, pp, message, sig)
    /\ ~verify(pk0, pp, message, sig)
    /\ ~verify(pk, pp, message0, sig)
    /\ ~verify(pk, pp, message, sig0)

=============================================================================
